---- MODULE Spec2Model ----
(***************************************************************************)
(* A model of the Painterly add-on (src/__init__.py):                      *)
(*   - the painterly raster job: PainterlyEffectOperator (invoke, modal,   *)
(*     _advance_state, setup_for_next_job, _cleanup), its worker futures   *)
(*     and PAINTERLY_OT_CancelEffect                      (SpecModal);     *)
(*   - the frame-cycling driver expression and the mix-shader chain built  *)
(*     by AutoStrokeOperator                              (SpecFrames);    *)
(*   - _repair_painterly_drivers_after_update             (SpecRepair);    *)
(*   - update_color and the debounced ramp queue          (SpecColor);     *)
(*   - the Geometry Nodes primary/secondary stroke registry (SpecGeo);     *)
(*   - the density mask of an instance branch              (SpecMask).     *)
(* Each specification drives its own variables and leaves the others at    *)
(* their initial value.                                                    *)
(***************************************************************************)
EXTENDS Integers, Sequences, FiniteSets, TLC

VARIABLES
    \* ---- painterly raster job (window manager, scene, operator instance)
    painterly_is_processing,    \* WindowManager.painterly_is_processing
    painterly_cancel_requested, \* WindowManager.painterly_cancel_requested
    enable_color_pass,          \* PainterlyProperties.enable_color_pass
    only_color_pass,            \* PainterlyProperties.only_color_pass
    mat_color,                  \* material -> its Base Color is fed by an image texture
    mat_normal,                 \* material -> "none" | "ok" | "bad": its source normal map
    op_status,                  \* "none" | "running" | "finished" | "cancelled" | "error"
    self,                       \* the fields of the PainterlyEffectOperator instance
    \* ---- animated stroke material (scene, properties, material)
    frame_current,              \* scene.frame_current
    step_value,                 \* StrokeBrushProperties.step_value
    frame_count,                \* mat["frame_count"]: stroke frames of the material
    held,                       \* scene frames the active stroke index has been shown for
    run_start_seen,             \* the active stroke index changed into its current value
    \* ---- a material of a loaded file and its node-tree drivers
    mat_painterly,              \* the material's name starts with "Painterly_"
    mat_frame_count,            \* mat["frame_count"], 0 when the key is missing
    mat_bsdf_nodes,             \* number of nodes named StrokeBSDF_*
    mat_has_anim,               \* node_tree.animation_data exists
    drivers,                    \* the driver expressions of the node tree, tokenised
    loaded_drivers,             \* the expressions as they were in the loaded file
    repair_runs,                \* 0, or 1 once the repair has run on the file
    \* ---- colour mixer: properties, curves and their ramp nodes, debounce globals
    animation_mode,             \* StrokeBrushProperties.animation_mode
    color,                      \* the colour settings of StrokeBrushProperties
    active_object,              \* context.object: a curve with a material, or 0
    obj_frame_count,            \* curve -> mat["frame_count"], 0 when missing
    ramp_nodes,                 \* curve -> indices n of its StrokeColorRamp_n nodes
    ramp_color,                 \* curve -> n -> the settings ramp n was last rebuilt from
    since_color_update,         \* time.time() - last_color_update_time, in units of
                                \* 0.1 s, counted up to DEBOUNCE_TOTAL_DELAY
    pending_inactive_ramp_refs, \* list of (material, node) references
    timer_registered,           \* _timer_registered
    timer_in,                   \* time until bpy.app.timers runs the debounce, -1 if not registered
    in_update_color,            \* _in_update_color
    owed,                       \* references queued and not rebuilt since
    last_timer,                 \* what the debounce timer did when it last ran
    \* ---- Geometry Node mode: objects and each scene's stroke registry
    primary_strokes,            \* scene -> geo_node_properties.primary_strokes
    modifiers,                  \* object -> its Painterly_GN_ node modifiers, in stack order
    objects,                    \* the objects that are in bpy.data.objects
    hide,                       \* object -> hide_get()
    hide_render,                \* object -> hide_render
    geo_last,                   \* the last registry operator, its result and its target
    \* ---- density mask of one instance branch (a secondary stroke of a primary)
    primary_type,               \* primary object's type: "MESH" | "CURVE"
    vertex_groups,              \* names of the primary object's vertex groups
    primary_alive,              \* the primary object is in bpy.data.objects
    secondary_alive,            \* the secondary object is in bpy.data.objects
    modifier_present,           \* the primary object carries its Painterly_GN_ modifier
    secondary_renamed,          \* the secondary object's name differs from the
                                \* one its nodes and socket were named after
    use_density_mask,           \* GeoNodeSecondaryStroke.use_density_mask
    density_vertex_group,       \* GeoNodeSecondaryStroke.density_vertex_group
    density_mask_socket_identifier, \* "" or the identifier of the mask socket
    density_factor_link,        \* source of the link into the Distribute node's
                                \* Density Factor input: "none" | "mask" | "other"
    density_factor_default,     \* that input's default value: "1.0" | "other"
    mod_use_attribute,          \* mod[<identifier>_use_attribute]: "True" | "False",
                                \* "unset" if absent
    mod_attribute_name,         \* mod[<identifier>_attribute_name], "unset" if absent
    mask_last                   \* "none" | "returned" | "ran": the last update call

modal_vars == <<painterly_is_processing, painterly_cancel_requested, enable_color_pass,
                only_color_pass, mat_color, mat_normal, op_status, self>>

frame_vars == <<frame_current, step_value, frame_count, held, run_start_seen>>

repair_vars == <<mat_painterly, mat_frame_count, mat_bsdf_nodes, mat_has_anim, drivers,
                 loaded_drivers, repair_runs>>

color_vars == <<animation_mode, color, active_object, obj_frame_count, ramp_nodes,
                ramp_color, since_color_update, pending_inactive_ramp_refs,
                timer_registered, timer_in, in_update_color, owed, last_timer>>

geo_vars == <<primary_strokes, modifiers, objects, hide, hide_render, geo_last>>

mask_vars == <<primary_type, vertex_groups, primary_alive, secondary_alive,
               modifier_present, secondary_renamed, use_density_mask, density_vertex_group,
               density_mask_socket_identifier, density_factor_link,
               density_factor_default, mod_use_attribute, mod_attribute_name, mask_last>>

vars == <<modal_vars, frame_vars, repair_vars, color_vars, geo_vars, mask_vars>>

\* ------------------------------------------------------------------ bounds
MaxMats == 2
MaxTasks == 2
MaxFrame == 8     \* scene frames -MaxFrame .. MaxFrame
MaxFc == 3        \* stroke frames of an animated material
MaxExprLen == 3   \* tokens of a driver expression
MaxDrivers == 1   \* drivers of a node tree
MaxObjs == 1      \* curves with a stroke material
MaxRamps == 2     \* stroke frames (colour ramps) of such a material
MaxGeoObjs == 2   \* curve and mesh objects of the file

\* ------------------------------------------------------- program constants
MinStep == 1
MaxStep == 12
DEBOUNCE_INTERVAL == 1      \* 0.1 s
DEBOUNCE_TOTAL_DELAY == 2   \* 0.2 s

(***************************************************************************)
(* PAINTERLY RASTER JOB                                                    *)
(***************************************************************************)
Mats == 1..MaxMats
Passes == {"COLOR", "NORMAL"}
EventTypes == {"TIMER", "ESC", "MOUSEMOVE"}

\* A source normal map is absent ("none"), usable ("ok"), or an image whose
\* pixel buffer does not reshape to its size ("bad": ValueError / IndexError).
NormalStates == {"none", "ok", "bad"}

\* _futures is None (-1), or a list of futures_n futures of which futures_done
\* have completed.  setup_log / tile_log / node_log / live_executors record what
\* the instance has done: the passes whose futures were submitted, the passes
\* finalize_tile wrote an image for, the materials finalize_node_setup rewired,
\* and the executors created and not shut down.
ClassDefaults ==
    [timer |-> FALSE, executor |-> FALSE, futures_n |-> -1, futures_done |-> 0,
     materials_to_process |-> <<>>,
     source_color_images |-> [m \in Mats |-> FALSE],
     source_normal_images |-> [m \in Mats |-> "none"],
     current_material_index |-> 0, current_pass |-> "NORMAL",
     setup_log |-> {}, tile_log |-> {}, node_log |-> {}, live_executors |-> 0]

current_material(j) == j.materials_to_process[j.current_material_index + 1]

finalize_node_setup(j) == [j EXCEPT !.node_log = @ \cup {current_material(j)}]

advance_state(j, props) ==
    IF j.current_pass = "COLOR" /\ ~props.only_color_pass
    THEN [j EXCEPT !.current_pass = "NORMAL"]
    ELSE LET k == finalize_node_setup(j)
             i == j.current_material_index + 1
         IN [k EXCEPT !.current_material_index = i,
                      !.current_pass =
                          IF i < Len(j.materials_to_process)
                          THEN (IF props.enable_color_pass THEN "COLOR" ELSE "NORMAL")
                          ELSE @]

\* has_tasks: the (material, pass) pairs for which generate_stroke_tasks returns
\* a non-empty list; n: the number of tasks of the pass that gets submitted.
RECURSIVE setup_for_next_job(_, _, _, _)
setup_for_next_job(j, props, has_tasks, n) ==
    LET mat == current_material(j)
        normal == j.source_normal_images[mat]
        skip(k) == LET a == advance_state(k, props)
                   IN IF a.current_material_index < Len(a.materials_to_process)
                      THEN setup_for_next_job(a, props, has_tasks, n)
                      ELSE a
    IN CASE normal = "bad" -> skip(j)
         [] normal # "bad" /\ j.current_pass = "COLOR"
               /\ (~j.source_color_images[mat] \/ normal # "ok") -> skip(j)
         [] normal # "bad" /\ j.current_pass # "COLOR" /\ normal # "ok" -> skip(j)
         [] OTHER ->
               IF <<mat, j.current_pass>> \notin has_tasks
               THEN skip([j EXCEPT !.futures_n = 0, !.futures_done = 0])
               ELSE [j EXCEPT !.executor = TRUE,
                              !.live_executors = @ + 1,
                              !.futures_n = n, !.futures_done = 0,
                              !.setup_log = @ \cup {<<mat, j.current_pass>>}]

\* finalize_tile returns early when the pass has no source image.
finalize_tile(j) ==
    LET mat == current_material(j)
        has_source == IF j.current_pass = "COLOR" THEN j.source_color_images[mat]
                      ELSE j.source_normal_images[mat] # "none"
    IN IF has_source THEN [j EXCEPT !.tile_log = @ \cup {<<mat, j.current_pass>>}] ELSE j

cleanup(j) ==
    [j EXCEPT !.timer = FALSE,
              !.executor = FALSE,
              !.live_executors = IF j.executor THEN @ - 1 ELSE @,
              !.futures_n = -1, !.futures_done = 0]

Props(enable, only) == [enable_color_pass |-> enable, only_color_pass |-> only]

\* A new operator instance is invoked once; the panel offers the operator only
\* while no job is processing.
invoke_guard == op_status = "none" /\ ~painterly_is_processing

\* check_pillow() fails: invoke returns CANCELLED before touching anything.
invoke_no_pillow ==
    /\ invoke_guard
    /\ op_status' = "cancelled"
    /\ UNCHANGED <<painterly_is_processing, painterly_cancel_requested, enable_color_pass,
                   only_color_pass, mat_color, mat_normal, self>>

\* No active object, no material to process, no preset selected or no brush
\* loaded: invoke resets painterly_is_processing and returns CANCELLED.
invoke_no_input(enable, only) ==
    /\ invoke_guard
    /\ painterly_is_processing' = FALSE
    /\ painterly_cancel_requested' = FALSE
    /\ enable_color_pass' = enable
    /\ only_color_pass' = only
    /\ op_status' = "cancelled"
    /\ UNCHANGED <<mat_color, mat_normal, self>>

\* selection: 0 for process_all_materials, otherwise the active material.
\* bake_ok: texture.auto_bake leaves an <object>_NORM_MAP image (the active
\* object is a mesh); otherwise bpy.data.images.get returns None.
invoke(selection, enable, only, bake_ok, has_tasks, n) ==
    /\ invoke_guard
    /\ painterly_cancel_requested' = FALSE
    /\ enable_color_pass' = enable
    /\ only_color_pass' = only
    /\ LET mats == IF selection = 0 THEN [i \in 1..MaxMats |-> i] ELSE <<selection>>
           processed(m) == \E i \in 1..Len(mats) : mats[i] = m
           normals == [m \in Mats |->
                         IF processed(m) /\ ~only /\ mat_normal[m] = "none"
                         THEN (IF bake_ok THEN "ok" ELSE "none")
                         ELSE mat_normal[m]]
           j0 == [ClassDefaults EXCEPT
                    !.materials_to_process = mats,
                    !.source_color_images = mat_color,
                    !.source_normal_images = normals,
                    !.current_material_index = 0,
                    !.current_pass = IF enable THEN "COLOR" ELSE "NORMAL"]
           j1 == setup_for_next_job(j0, Props(enable, only), has_tasks, n)
       IN /\ painterly_is_processing' = TRUE
          /\ mat_normal' = normals
          /\ self' = [j1 EXCEPT !.timer = TRUE]
          /\ op_status' = "running"
    /\ UNCHANGED mat_color

\* A faulty variant of cancel_check: the painterly_cancel_requested test is dropped.
cancel_check_esc_only(event) == event = "ESC"

\* The two checks modal makes before it looks at the event type.
cancel_check(event) == painterly_cancel_requested \/ event = "ESC"

\* One event delivered to the modal handler.
modal(event, has_tasks, n) ==
    /\ op_status = "running"
    /\ UNCHANGED <<painterly_cancel_requested, enable_color_pass, only_color_pass,
                   mat_color, mat_normal>>
    /\ CASE cancel_check(event) ->
              /\ self' = cleanup(self)
              /\ painterly_is_processing' = FALSE
              /\ op_status' = "cancelled"
         [] ~cancel_check(event) /\ event = "TIMER" ->
              IF ~self.executor \/ self.futures_n <= 0
              THEN /\ self' = cleanup(self)
                   /\ painterly_is_processing' = FALSE
                   /\ op_status' = "finished"
              ELSE IF self.current_material_index >= Len(self.materials_to_process)
              THEN \* materials_to_process[current_material_index]: IndexError
                   /\ op_status' = "error"
                   /\ UNCHANGED <<self, painterly_is_processing>>
              ELSE IF self.futures_done = self.futures_n
              THEN LET a == advance_state(finalize_tile(self),
                                          Props(enable_color_pass, only_color_pass))
                   IN IF a.current_material_index >= Len(a.materials_to_process)
                      THEN /\ self' = cleanup(a)
                           /\ painterly_is_processing' = FALSE
                           /\ op_status' = "finished"
                      ELSE /\ self' = setup_for_next_job(
                                          a, Props(enable_color_pass, only_color_pass),
                                          has_tasks, n)
                           /\ UNCHANGED <<painterly_is_processing, op_status>>
              ELSE UNCHANGED <<self, painterly_is_processing, op_status>>
         [] OTHER -> UNCHANGED <<self, painterly_is_processing, op_status>>

\* A worker thread completes one submitted future.
apply_stroke_thread ==
    /\ self.futures_done < self.futures_n
    /\ self' = [self EXCEPT !.futures_done = @ + 1]
    /\ UNCHANGED <<painterly_is_processing, painterly_cancel_requested, enable_color_pass,
                   only_color_pass, mat_color, mat_normal, op_status>>

CancelEffect ==
    /\ painterly_cancel_requested' = TRUE
    /\ UNCHANGED <<painterly_is_processing, enable_color_pass, only_color_pass,
                   mat_color, mat_normal, op_status, self>>

\* The window manager outlives operator instances: a cancel request may be
\* left over from an earlier job.
ModalInit ==
    /\ painterly_is_processing = FALSE
    /\ painterly_cancel_requested \in BOOLEAN
    /\ enable_color_pass = FALSE
    /\ only_color_pass = FALSE
    /\ mat_color \in [Mats -> BOOLEAN]
    /\ mat_normal \in [Mats -> NormalStates]
    /\ op_status = "none"
    /\ self = ClassDefaults

InvokeNoPillow == invoke_no_pillow

InvokeNoInput == \E enable \in BOOLEAN, only \in BOOLEAN : invoke_no_input(enable, only)

Invoke ==
    \E selection \in 0..MaxMats, enable \in BOOLEAN, only \in BOOLEAN, bake_ok \in BOOLEAN,
       has_tasks \in SUBSET (Mats \X Passes), n \in 1..MaxTasks :
        invoke(selection, enable, only, bake_ok, has_tasks, n)

\* The event on which modal finds every future of the current job done; only
\* then does it consult the stroke tasks of the jobs that follow.
job_done(event) ==
    /\ ~cancel_check(event)
    /\ event = "TIMER"
    /\ self.executor
    /\ self.futures_n > 0
    /\ self.futures_done = self.futures_n

Modal ==
    \E event \in EventTypes :
        IF job_done(event)
        THEN \E has_tasks \in SUBSET (Mats \X Passes), n \in 1..MaxTasks :
                 modal(event, has_tasks, n)
        ELSE modal(event, {}, 1)

\* The state before any painterly job is started.
ModalRest ==
    /\ painterly_is_processing = FALSE
    /\ painterly_cancel_requested = FALSE
    /\ enable_color_pass = FALSE
    /\ only_color_pass = FALSE
    /\ mat_color = [m \in Mats |-> FALSE]
    /\ mat_normal = [m \in Mats |-> "none"]
    /\ op_status = "none"
    /\ self = ClassDefaults

(***************************************************************************)
(* ANIMATED FRAME CYCLING                                                  *)
(***************************************************************************)
Frames == (0 - MaxFrame)..MaxFrame

py_max(a, b) == IF a >= b THEN a ELSE b

\* int(a / b), b > 0: true division, then truncation toward zero.
py_int_div(a, b) == IF a >= 0 THEN a \div b ELSE 0 - ((0 - a) \div b)

\* A faulty variant of py_mod: the remainder takes the sign of the dividend (C's fmod).
c_fmod(a, b) == IF a >= 0 THEN a % b ELSE 0 - ((0 - a) % b)

\* Python's a % b, b > 0: the result is in 0 .. b-1.
py_mod(a, b) == a % b

\* The value of "int(((frame - 1) / max(step, 1))) % max(fc, 1) + 1".
driver_index(frame, step, fc) ==
    py_mod(py_int_div(frame - 1, py_max(step, 1)), py_max(fc, 1)) + 1

\* The driver of Mix Shader_k's factor: "... + 1 == k".
mix_factor(k, frame, step, fc) == driver_index(frame, step, fc) = k

\* The shader reaching the material output: Mix Shader_k passes StrokeBSDF_k
\* (input 2) when its factor is true and otherwise the previous mix node
\* (input 1); Mix Shader_1's input 1 is the transparent shader (0).
RECURSIVE mix_chain(_, _, _, _)
mix_chain(k, frame, step, fc) ==
    IF k = 0 THEN 0
    ELSE IF mix_factor(k, frame, step, fc) THEN k
    ELSE mix_chain(k - 1, frame, step, fc)

active_stroke == mix_chain(frame_count, frame_current, step_value, frame_count)

\* AutoStrokeOperator builds an animated material with fc stroke frames.
AutoStroke ==
    \E fc \in 1..MaxFc :
        /\ frame_count' = fc
        /\ held' = 1
        /\ run_start_seen' = FALSE
        /\ UNCHANGED <<frame_current, step_value>>

\* The step_value property is set; update_step_drivers rewrites every Mix
\* Shader driver with the same expression.
SetStepValue ==
    \E s \in MinStep..MaxStep :
        /\ step_value' = s
        /\ held' = 1
        /\ run_start_seen' = FALSE
        /\ UNCHANGED <<frame_current, frame_count>>

\* Playback or stepping: the scene frame increases by one.
FrameAdvance ==
    /\ frame_current < MaxFrame
    /\ frame_current' = frame_current + 1
    /\ UNCHANGED <<step_value, frame_count>>
    /\ LET cur == active_stroke
           nxt == mix_chain(frame_count, frame_current + 1, step_value, frame_count)
       IN /\ held' = IF nxt = cur THEN held + 1 ELSE 1
          /\ run_start_seen' = (run_start_seen \/ nxt # cur)

\* The user jumps to another frame.
FrameSet ==
    \E f \in Frames :
        /\ frame_current' = f
        /\ held' = 1
        /\ run_start_seen' = FALSE
        /\ UNCHANGED <<step_value, frame_count>>

FramesInit ==
    /\ frame_current = 1
    /\ step_value = 1
    /\ frame_count \in 1..MaxFc
    /\ held = 1
    /\ run_start_seen = FALSE

FramesRest ==
    /\ frame_current = 1
    /\ step_value = 1
    /\ frame_count = 1
    /\ held = 1
    /\ run_start_seen = FALSE

(***************************************************************************)
(* DRIVER REPAIR ON FILE LOAD                                              *)
(***************************************************************************)
\* A driver expression is a sequence of tokens; its text is their concatenation.
\* "/ step" is the token "/ " followed by "step", "/ max(step, 1)" is "/ "
\* followed by "max(step, 1)", and likewise for "% fc".
Tokens == {"/ ", "% ", "step", "fc", "max(step, 1)", "max(fc, 1)", "frame"}

RECURSIVE SeqsUpTo(_, _)
SeqsUpTo(S, n) ==
    IF n = 0 THEN {<<>>}
    ELSE LET shorter == SeqsUpTo(S, n - 1)
         IN shorter \cup {Append(e, t) : e \in shorter, t \in S}

Expressions == SeqsUpTo(Tokens, MaxExprLen)

\* Python's "pat in expr" for a pattern of one or two tokens.
contains(expr, pat) ==
    \E i \in 1..Len(expr) :
        /\ i + Len(pat) - 1 <= Len(expr)
        /\ \A j \in 1..Len(pat) : expr[i + j - 1] = pat[j]

\* Python's expr.replace(old, new) where old = <<a, b>> and new = <<a, c>>.
RECURSIVE str_replace(_, _, _)
str_replace(expr, old, new) ==
    IF Len(expr) < 2 THEN expr
    ELSE IF expr[1] = old[1] /\ expr[2] = old[2]
    THEN new \o str_replace(SubSeq(expr, 3, Len(expr)), old, new)
    ELSE <<expr[1]>> \o str_replace(Tail(expr), old, new)

repair_expression(expr) ==
    LET e1 == IF contains(expr, <<"/ ", "step">>) /\ ~contains(expr, <<"max(step, 1)">>)
              THEN str_replace(expr, <<"/ ", "step">>, <<"/ ", "max(step, 1)">>)
              ELSE expr
    IN IF contains(e1, <<"% ", "fc">>) /\ ~contains(e1, <<"max(fc, 1)">>)
       THEN str_replace(e1, <<"% ", "fc">>, <<"% ", "max(fc, 1)">>)
       ELSE e1

\* _ensure_frame_count_on_material: a missing key is set to the number of
\* StrokeBSDF_ nodes when there are any.
ensure_frame_count(fc, bsdf_nodes) == IF fc = 0 /\ bsdf_nodes > 0 THEN bsdf_nodes ELSE fc

\* painterly_load_post_handler runs the repair over the loaded materials.
repair_painterly_drivers_after_update ==
    /\ repair_runs' = 1
    /\ IF ~mat_painterly
       THEN UNCHANGED <<mat_frame_count, drivers>>
       ELSE /\ mat_frame_count' = ensure_frame_count(mat_frame_count, mat_bsdf_nodes)
            /\ IF ~mat_has_anim
               THEN UNCHANGED drivers
               ELSE drivers' = [i \in 1..Len(drivers) |->
                                  IF drivers[i] = <<>> THEN drivers[i]
                                  ELSE repair_expression(drivers[i])]
    /\ UNCHANGED <<mat_painterly, mat_bsdf_nodes, mat_has_anim, loaded_drivers>>

\* A loaded file: any material, with any drivers (drivers live in the node
\* tree's animation data).
RepairInit ==
    /\ mat_painterly \in BOOLEAN
    /\ mat_frame_count \in 0..MaxFc
    /\ mat_bsdf_nodes \in 0..MaxFc
    /\ mat_has_anim \in BOOLEAN
    /\ drivers \in UNION {[1..n -> Expressions] : n \in 0..MaxDrivers}
    /\ (~mat_has_anim) => drivers = <<>>
    /\ loaded_drivers = drivers
    /\ repair_runs = 0

RepairRest ==
    /\ mat_painterly = FALSE
    /\ mat_frame_count = 0
    /\ mat_bsdf_nodes = 0
    /\ mat_has_anim = FALSE
    /\ drivers = <<>>
    /\ loaded_drivers = <<>>
    /\ repair_runs = 0

(***************************************************************************)
(* COLOUR MIXER: update_color AND THE DEBOUNCED RAMP QUEUE                 *)
(***************************************************************************)
Objs == 1..MaxObjs
\* Two colour settings: the routines copy the settings into a ramp and never
\* inspect them, so a ramp either reflects the current settings or the other.
Colors == {"base", "edited"}

\* "(int(((frame - 1) / step)) % fc) + 1" of update_color and
\* update_active_color_ramp.
ramp_index(frame, step, fc) == py_mod(py_int_div(frame - 1, step), fc) + 1

\* update_ramp_node(node): every stop is rebuilt from the current properties,
\* whose colour is c.
update_ramp_node(rc, o, n, c) == [rc EXCEPT ![o][n] = c]

\* A faulty variant of update_active_color_ramp: the active index is always 1.
update_active_color_ramp_first(rc, c) ==
    IF active_object # 0 /\ 1 \in ramp_nodes[active_object]
    THEN update_ramp_node(rc, active_object, 1, c)
    ELSE rc

\* The ramps after update_active_color_ramp(context).
update_active_color_ramp(rc, c) ==
    IF active_object = 0 THEN rc
    ELSE LET fc == obj_frame_count[active_object]
             active_index == IF animation_mode = "STATIC" \/ fc <= 0 THEN 1
                             ELSE ramp_index(frame_current, step_value, fc)
         IN IF active_index \in ramp_nodes[active_object]
            THEN update_ramp_node(rc, active_object, active_index, c)
            ELSE rc

\* The index update_active_color_ramp treats as active in ANIMATED mode.
active_frame_index ==
    LET fc == obj_frame_count[active_object]
    IN IF fc > 0 THEN ramp_index(frame_current, step_value, fc) ELSE 1

\* The node that update_active_color_ramp rebuilds (0: none).
rebuilt_active ==
    IF active_object = 0 THEN 0
    ELSE LET fc == obj_frame_count[active_object]
             active_index == IF animation_mode = "STATIC" \/ fc <= 0 THEN 1
                             ELSE ramp_index(frame_current, step_value, fc)
         IN IF active_index \in ramp_nodes[active_object] THEN active_index ELSE 0

\* The references update_color appends, in node order: active_index is None
\* unless frame_count is positive.
RECURSIVE queue_refs(_, _, _)
queue_refs(o, n, skip) ==
    IF n > MaxRamps THEN <<>>
    ELSE (IF n \in ramp_nodes[o] /\ n # skip THEN <<(<<o, n>>)>> ELSE <<>>)
         \o queue_refs(o, n + 1, skip)

inactive_refs ==
    IF active_object = 0 THEN <<>>
    ELSE LET fc == obj_frame_count[active_object]
             active_index == IF fc > 0 THEN ramp_index(frame_current, step_value, fc) ELSE 0
         IN queue_refs(active_object, 1, active_index)

SeqSet(q) == {q[i] : i \in 1..Len(q)}

\* pending_inactive_ramp_refs' holds exactly one reference for every ramp in
\* S of the active curve, and nothing else.
QueuedExactly(S) ==
    /\ Len(pending_inactive_ramp_refs') = Cardinality(S)
    /\ \A n \in S : \E i \in 1..Len(pending_inactive_ramp_refs') :
           pending_inactive_ramp_refs'[i] = <<active_object, n>>

\* update_color(context); the properties already hold their new value.
update_color ==
    /\ since_color_update' = 0
    /\ UNCHANGED <<animation_mode, active_object, obj_frame_count, ramp_nodes,
                   frame_current, step_value, in_update_color, last_timer>>
    /\ IF animation_mode = "STATIC"
       THEN /\ ramp_color' = update_active_color_ramp(ramp_color, color')
            /\ UNCHANGED <<pending_inactive_ramp_refs, timer_registered, timer_in>>
       ELSE IF in_update_color
       THEN UNCHANGED <<ramp_color, pending_inactive_ramp_refs, timer_registered, timer_in>>
       ELSE /\ ramp_color' = update_active_color_ramp(ramp_color, color')
            /\ pending_inactive_ramp_refs' = inactive_refs
            \* schedule_inactive_ramp_updates
            /\ IF ~timer_registered \/ timer_in = -1
               THEN /\ timer_registered' = TRUE
                    /\ timer_in' = DEBOUNCE_TOTAL_DELAY
               ELSE UNCHANGED <<timer_registered, timer_in>>

\* A faulty variant of keep_waiting: the timer waits for DEBOUNCE_INTERVAL only.
keep_waiting_interval == since_color_update < DEBOUNCE_INTERVAL

\* The test that makes the debounce timer keep deferring.
keep_waiting == since_color_update < DEBOUNCE_TOTAL_DELAY

\* The ramps after the queue q has been drained.
RECURSIVE drain(_, _)
drain(rc, q) ==
    IF q = <<>> THEN rc
    ELSE LET o == q[1][1]
             n == q[1][2]
         IN drain(IF n \in ramp_nodes[o] THEN update_ramp_node(rc, o, n, color) ELSE rc, Tail(q))

\* bpy.app.timers runs debounce_update_inactive_ramp_nodes when it is due.
debounce_update_inactive_ramp_nodes ==
    /\ timer_in = 0
    /\ UNCHANGED <<animation_mode, color, active_object, obj_frame_count, ramp_nodes,
                   since_color_update, in_update_color, frame_current, step_value>>
    /\ IF keep_waiting
       THEN /\ timer_in' = DEBOUNCE_INTERVAL
            /\ last_timer' = "deferred"
            /\ UNCHANGED <<ramp_color, pending_inactive_ramp_refs, timer_registered>>
       ELSE /\ ramp_color' = drain(ramp_color, pending_inactive_ramp_refs)
            /\ pending_inactive_ramp_refs' = <<>>
            /\ timer_registered' = FALSE
            /\ timer_in' = -1
            /\ last_timer' = "drained"

\* A colour property is set; its update callback is update_color.
SetColor ==
    \E c \in Colors :
        /\ color' = c
        /\ update_color

\* Stroke Mode is switched (the property has no update callback).
SetAnimationMode ==
    \E m \in {"ANIMATED", "STATIC"} :
        /\ animation_mode' = m
        /\ UNCHANGED <<color, active_object, obj_frame_count, ramp_nodes, ramp_color,
                       since_color_update, pending_inactive_ramp_refs, timer_registered,
                       timer_in, in_update_color, last_timer, frame_current, step_value>>

\* Another object becomes active: a stroke curve, or (0) any other object or none.
SelectObject ==
    \E o \in 0..MaxObjs :
        /\ active_object' = o
        /\ UNCHANGED <<animation_mode, color, obj_frame_count, ramp_nodes, ramp_color,
                       since_color_update, pending_inactive_ramp_refs, timer_registered,
                       timer_in, in_update_color, last_timer, frame_current, step_value>>

\* The scene frame changes.
SceneFrame ==
    \E f \in 1..MaxRamps :
        /\ frame_current' = f
        /\ UNCHANGED <<animation_mode, color, active_object, obj_frame_count, ramp_nodes,
                       ramp_color, since_color_update, pending_inactive_ramp_refs,
                       timer_registered, timer_in, in_update_color, last_timer, step_value>>

\* 0.1 s passes.  A timer that is due may still run late.
Tick ==
    /\ since_color_update' = IF since_color_update < DEBOUNCE_TOTAL_DELAY
                             THEN since_color_update + 1 ELSE since_color_update
    /\ timer_in' = IF timer_in > 0 THEN timer_in - 1 ELSE timer_in
    /\ UNCHANGED <<animation_mode, color, active_object, obj_frame_count, ramp_nodes,
                   ramp_color, pending_inactive_ramp_refs, timer_registered,
                   in_update_color, last_timer, frame_current, step_value>>

\* The references still owed a rebuild after update_color / after the timer.
owed_after_update_color ==
    IF animation_mode = "STATIC" THEN owed \ {<<active_object, rebuilt_active>>}
    ELSE IF in_update_color THEN owed
    ELSE (owed \cup SeqSet(inactive_refs)) \ {<<active_object, rebuilt_active>>}

owed_after_debounce ==
    IF keep_waiting THEN owed
    ELSE owed \ {r \in SeqSet(pending_inactive_ramp_refs) : r[2] \in ramp_nodes[r[1]]}

\* Curves built by AutoStrokeOperator: an animated material has frame_count fc
\* and ramps 1..fc, a static one has no frame_count and the ramp 1.  The module
\* globals are at their initial value: last_color_update_time = 0.0 is long ago.
ColorInit ==
    /\ animation_mode = "ANIMATED"
    /\ color = "base"
    /\ active_object \in 0..MaxObjs
    /\ obj_frame_count \in [Objs -> 0..MaxRamps]
    /\ ramp_nodes = [o \in Objs |-> 1..py_max(obj_frame_count[o], 1)]
    /\ ramp_color = [o \in Objs |-> [n \in 1..MaxRamps |-> "base"]]
    /\ since_color_update = DEBOUNCE_TOTAL_DELAY
    /\ pending_inactive_ramp_refs = <<>>
    /\ timer_registered = FALSE
    /\ timer_in = -1
    /\ in_update_color = FALSE
    /\ owed = {}
    /\ last_timer = "none"

ColorRest ==
    /\ animation_mode = "ANIMATED"
    /\ color = "base"
    /\ active_object = 0
    /\ obj_frame_count = [o \in Objs |-> 0]
    /\ ramp_nodes = [o \in Objs |-> {}]
    /\ ramp_color = [o \in Objs |-> [n \in 1..MaxRamps |-> "base"]]
    /\ since_color_update = DEBOUNCE_TOTAL_DELAY
    /\ pending_inactive_ramp_refs = <<>>
    /\ timer_registered = FALSE
    /\ timer_in = -1
    /\ in_update_color = FALSE
    /\ owed = {}
    /\ last_timer = "none"

(***************************************************************************)
(* GEOMETRY NODE MODE: PRIMARY AND SECONDARY STROKES                       *)
(***************************************************************************)
GeoObjs == 1..MaxGeoObjs

\* bpy.types.Scene.geo_node_properties: every scene has its own registry.
Scenes == {"Scene", "Scene.001"}

\* _obj_alive(obj)
obj_alive(o) == o \in objects

\* get_geo_node_modifier(obj): the position of the first node modifier whose
\* group is named Painterly_GN_*, 0 for None.
get_geo_node_modifier(o) ==
    IF ~obj_alive(o) THEN 0
    ELSE IF modifiers[o] = <<>> THEN 0 ELSE 1

\* collection.remove(index), index counted from 0.
remove(coll, index) ==
    [k \in 1..(Len(coll) - 1) |-> IF k <= index THEN coll[k] ELSE coll[k + 1]]

\* The objects held by a collection of stroke entries.
objs_of(coll) == {coll[k].obj : k \in 1..Len(coll)}

\* The orders in which a set of objects can be iterated.
RECURSIVE Orders(_)
Orders(S) ==
    IF S = {} THEN {<<>>}
    ELSE UNION {{<<o>> \o rest : rest \in Orders(S \ {o})} : o \in S}

\* create_painterly_geo_nodes_group: a new node group Painterly_GN_<name> and a
\* modifier that uses it, under the modifiers the object already has.  The
\* group is identified by the scene whose registry it was made for.
create_painterly_geo_nodes_group(mods, s, o) == [mods EXCEPT ![o] = Append(@, s)]

Report(op, result, o, secs) ==
    [op |-> op, result |-> result, obj |-> o, secondaries |-> secs]

\* PAINTERLY_OT_AddPrimaryStroke.execute, context.scene = s, active object o.
AddPrimaryStroke(s, o) ==
    /\ obj_alive(o)
    /\ UNCHANGED <<objects, hide, hide_render>>
    /\ IF o \in objs_of(primary_strokes[s])
       THEN /\ UNCHANGED <<primary_strokes, modifiers>>
            /\ geo_last' = Report("AddPrimaryStroke", "CANCELLED", o, {})
       ELSE /\ primary_strokes' = [primary_strokes EXCEPT
                   ![s] = Append(@, [obj |-> o, secondary_strokes |-> <<>>])]
            /\ modifiers' = create_painterly_geo_nodes_group(modifiers, s, o)
            /\ geo_last' = Report("AddPrimaryStroke", "FINISHED", o, {})

\* A faulty variant of instance_skipped: the target's own instances are not looked at.
instance_skipped_primaries_only(s, target, o) ==
    \/ o = target.obj
    \/ o \in objs_of(primary_strokes[s])

\* The selected objects InstanceStroke passes over: the target primary object,
\* every primary stroke object of the scene's registry, and the objects that
\* are already instances of the target.
instance_skipped(s, target, o) ==
    \/ o = target.obj
    \/ o \in objs_of(primary_strokes[s])
    \/ o \in objs_of(target.secondary_strokes)

\* PAINTERLY_OT_InstanceStroke.execute, context.scene = s, target index
\* target_idx (from 0) and the selected objects, iterated in the order sel.
InstanceStroke(s, target_idx, sel) ==
    LET target == primary_strokes[s][target_idx + 1]
        primary_obj == target.obj
        added == SelectSeq(sel, LAMBDA o : obj_alive(o) /\ ~instance_skipped(s, target, o))
        new_secondaries == [k \in 1..Len(added) |-> [obj |-> added[k]]]
    IN /\ Len(sel) > 0
       /\ target_idx < Len(primary_strokes[s])
       /\ UNCHANGED <<objects, modifiers>>
       /\ IF ~obj_alive(primary_obj) \/ get_geo_node_modifier(primary_obj) = 0
          THEN /\ UNCHANGED <<primary_strokes, hide, hide_render>>
               /\ geo_last' = Report("InstanceStroke", "CANCELLED", primary_obj, {})
          ELSE /\ primary_strokes' = [primary_strokes EXCEPT
                      ![s][target_idx + 1].secondary_strokes = @ \o new_secondaries]
               /\ hide' = [o \in GeoObjs |-> hide[o] \/ o \in objs_of(new_secondaries)]
               /\ hide_render' = [o \in GeoObjs |->
                                     hide_render[o] \/ o \in objs_of(new_secondaries)]
               /\ geo_last' = Report("InstanceStroke", "FINISHED", primary_obj,
                                     objs_of(new_secondaries))

\* PAINTERLY_OT_RemovePrimaryStroke.execute, context.scene = s.
RemovePrimaryStroke(s, primary_stroke_index) ==
    IF primary_stroke_index >= Len(primary_strokes[s])
    THEN /\ UNCHANGED <<primary_strokes, modifiers, objects, hide, hide_render>>
         /\ geo_last' = Report("RemovePrimaryStroke", "CANCELLED", 0, {})
    ELSE LET primary_to_remove == primary_strokes[s][primary_stroke_index + 1]
             obj == primary_to_remove.obj
             shown == {o \in objs_of(primary_to_remove.secondary_strokes) : obj_alive(o)}
             mod == get_geo_node_modifier(obj)
         IN /\ hide' = [o \in GeoObjs |-> hide[o] /\ o \notin shown]
            /\ hide_render' = [o \in GeoObjs |-> hide_render[o] /\ o \notin shown]
            /\ modifiers' = IF obj_alive(obj) /\ mod # 0
                            THEN [modifiers EXCEPT ![obj] = remove(@, mod - 1)]
                            ELSE modifiers
            /\ primary_strokes' = [primary_strokes EXCEPT
                   ![s] = remove(@, primary_stroke_index)]
            /\ UNCHANGED objects
            /\ geo_last' = Report("RemovePrimaryStroke", "FINISHED", obj,
                                  objs_of(primary_to_remove.secondary_strokes))

\* PAINTERLY_OT_RemoveSecondaryStroke.execute, context.scene = s; the panel
\* passes the indices of an entry it has drawn.
RemoveSecondaryStroke(s, primary_stroke_index, secondary_stroke_index) ==
    /\ primary_stroke_index < Len(primary_strokes[s])
    /\ LET primary_stroke == primary_strokes[s][primary_stroke_index + 1]
           primary_obj == primary_stroke.obj
       IN /\ secondary_stroke_index < Len(primary_stroke.secondary_strokes)
          /\ LET secondary_obj ==
                     primary_stroke.secondary_strokes[secondary_stroke_index + 1].obj
                 shown == IF obj_alive(primary_obj) /\ obj_alive(secondary_obj)
                          THEN {secondary_obj} ELSE {}
             IN /\ hide' = [o \in GeoObjs |-> hide[o] /\ o \notin shown]
                /\ hide_render' = [o \in GeoObjs |-> hide_render[o] /\ o \notin shown]
                /\ primary_strokes' = [primary_strokes EXCEPT
                       ![s][primary_stroke_index + 1].secondary_strokes =
                           remove(@, secondary_stroke_index)]
                /\ geo_last' = Report("RemoveSecondaryStroke",
                                      IF obj_alive(primary_obj) THEN "FINISHED"
                                      ELSE "CANCELLED",
                                      primary_obj, {secondary_obj})
    /\ UNCHANGED <<modifiers, objects>>

\* PAINTERLY_OT_ToggleInstanceVisibility.execute on the object named obj_name.
ToggleInstanceVisibility(o) ==
    /\ UNCHANGED <<primary_strokes, modifiers, objects>>
    /\ IF ~obj_alive(o)
       THEN /\ UNCHANGED <<hide, hide_render>>
            /\ geo_last' = Report("ToggleInstanceVisibility", "CANCELLED", o, {})
       ELSE /\ hide' = [hide EXCEPT ![o] = ~hide[o]]
            /\ hide_render' = [hide_render EXCEPT ![o] = ~hide[o]]
            /\ geo_last' = Report("ToggleInstanceVisibility", "FINISHED", o, {})

\* The user deletes an object: it leaves bpy.data.objects with its modifiers.
DeleteObject(o) ==
    /\ obj_alive(o)
    /\ objects' = objects \ {o}
    /\ modifiers' = [modifiers EXCEPT ![o] = <<>>]
    /\ hide' = [hide EXCEPT ![o] = FALSE]
    /\ hide_render' = [hide_render EXCEPT ![o] = FALSE]
    /\ geo_last' = Report("DeleteObject", "FINISHED", o, {})
    /\ UNCHANGED primary_strokes

\* A file with its objects visible, no registry entry and no Painterly modifier.
GeoInit ==
    /\ primary_strokes = [s \in Scenes |-> <<>>]
    /\ modifiers = [o \in GeoObjs |-> <<>>]
    /\ objects = GeoObjs
    /\ hide = [o \in GeoObjs |-> FALSE]
    /\ hide_render = [o \in GeoObjs |-> FALSE]
    /\ geo_last = Report("none", "none", 0, {})

GeoRest == GeoInit

(***************************************************************************)
(* GEOMETRY NODE MODE: INSTANCE-DENSITY MASK                               *)
(***************************************************************************)
\* Names a vertex group of the primary object can have.
VertexGroupNames == {"Top", "Side"}

\* The identifier InstanceStroke stores for the branch's "Density Mask" socket.
SocketIdentifier == "Socket_2"

\* nodes.get("Distribute_<secondary name>") and the interface item
\* "Density Mask <secondary name>" are looked up by the object's current name;
\* the node and the socket carry the name the object had when it was instanced.
found_by_name == ~secondary_renamed

\* The value a modifier key holds after mod[key] = b.
key_value(b) == IF b THEN "True" ELSE "False"

\* vg_is_valid for the property values use and group.
vg_is_valid(use, group) ==
    /\ use
    /\ group # ""
    /\ primary_type = "MESH"
    /\ group \in vertex_groups

\* _set_density_factor_link(ng, ss_prop, secondary_name, connect): the link into
\* Density Factor and the input's default value afterwards.
set_density_factor_link(connect) ==
    IF ~found_by_name
    THEN UNCHANGED <<density_factor_link, density_factor_default>>
    ELSE IF connect
    THEN /\ density_factor_link' = "mask"
         /\ UNCHANGED density_factor_default
    ELSE /\ density_factor_link' = "none"
         /\ density_factor_default' = "1.0"

\* update_geo_node_instance_values(self, context); the properties already hold
\* their new values use and group.
update_geo_node_instance_values(use, group) ==
    IF ~primary_alive \/ ~secondary_alive \/ ~modifier_present
    THEN /\ mask_last' = "returned"
         /\ UNCHANGED <<density_mask_socket_identifier, density_factor_link,
                        density_factor_default, mod_use_attribute, mod_attribute_name>>
    ELSE LET identifier == IF density_mask_socket_identifier = "" /\ found_by_name
                           THEN SocketIdentifier
                           ELSE density_mask_socket_identifier
         IN /\ mask_last' = "ran"
            /\ density_mask_socket_identifier' = identifier
            /\ IF identifier = ""
               THEN UNCHANGED <<density_factor_link, density_factor_default,
                                mod_use_attribute, mod_attribute_name>>
               ELSE /\ mod_use_attribute' = key_value(vg_is_valid(use, group))
                    /\ mod_attribute_name' = IF vg_is_valid(use, group) THEN group
                                             ELSE "unset"
                    /\ set_density_factor_link(use /\ vg_is_valid(use, group))

mask_env == <<primary_type, vertex_groups, primary_alive, secondary_alive,
              modifier_present, secondary_renamed>>

\* The Use Density Mask toggle is set.
SetUseDensityMask ==
    \E use \in BOOLEAN :
        /\ use_density_mask' = use
        /\ update_geo_node_instance_values(use, density_vertex_group)
        /\ UNCHANGED <<mask_env, density_vertex_group>>

\* The Mask vertex group field is set (or cleared).
SetDensityVertexGroup ==
    \E group \in VertexGroupNames \cup {""} :
        /\ density_vertex_group' = group
        /\ update_geo_node_instance_values(use_density_mask, group)
        /\ UNCHANGED <<mask_env, use_density_mask>>

\* Another property of the instance (density, scale, ...) is set.
SetInstanceValue ==
    /\ update_geo_node_instance_values(use_density_mask, density_vertex_group)
    /\ UNCHANGED <<mask_env, use_density_mask, density_vertex_group>>

mask_props == <<use_density_mask, density_vertex_group, density_mask_socket_identifier,
                density_factor_link, density_factor_default, mod_use_attribute,
                mod_attribute_name, mask_last>>

\* The user adds or removes a vertex group of the primary object.
EditVertexGroups ==
    \E name \in VertexGroupNames :
        /\ vertex_groups' = IF name \in vertex_groups THEN vertex_groups \ {name}
                            ELSE vertex_groups \cup {name}
        /\ UNCHANGED <<primary_type, primary_alive, secondary_alive, modifier_present,
                       secondary_renamed, mask_props>>

\* The user renames the secondary object, or gives it its old name back.
RenameSecondary ==
    /\ secondary_alive
    /\ secondary_renamed' = ~secondary_renamed
    /\ UNCHANGED <<primary_type, vertex_groups, primary_alive, secondary_alive,
                   modifier_present, mask_props>>

\* The user deletes the primary or the secondary object.
DeleteMaskObject ==
    /\ \/ primary_alive /\ primary_alive' = FALSE /\ UNCHANGED secondary_alive
       \/ secondary_alive /\ secondary_alive' = FALSE /\ UNCHANGED primary_alive
    /\ UNCHANGED <<primary_type, vertex_groups, modifier_present, secondary_renamed,
                   mask_props>>

\* The user removes the Painterly_GN_ modifier from the primary object; its
\* keys go with it.
RemoveModifier ==
    /\ modifier_present
    /\ modifier_present' = FALSE
    /\ mod_use_attribute' = "unset"
    /\ mod_attribute_name' = "unset"
    /\ UNCHANGED <<primary_type, vertex_groups, primary_alive, secondary_alive,
                   secondary_renamed, use_density_mask, density_vertex_group,
                   density_mask_socket_identifier, density_factor_link,
                   density_factor_default, mask_last>>

\* The user edits the Distribute node's Density Factor input in the node editor.
EditDensityFactorInput ==
    \E link \in {"none", "other"}, default \in {"1.0", "other"} :
        /\ density_factor_link' = link
        /\ density_factor_default' = default
        /\ UNCHANGED <<mask_env, use_density_mask, density_vertex_group,
                       density_mask_socket_identifier, mod_use_attribute,
                       mod_attribute_name, mask_last>>

\* The branch as InstanceStroke leaves it: the socket identifier is stored, the
\* mask is off and the update it ends with has removed the link it made.
MaskInit ==
    /\ primary_type \in {"MESH", "CURVE"}
    /\ vertex_groups \in SUBSET VertexGroupNames
    /\ primary_alive = TRUE
    /\ secondary_alive = TRUE
    /\ modifier_present = TRUE
    /\ secondary_renamed = FALSE
    /\ use_density_mask = FALSE
    /\ density_vertex_group = ""
    /\ density_mask_socket_identifier = SocketIdentifier
    /\ density_factor_link = "none"
    /\ density_factor_default = "1.0"
    /\ mod_use_attribute = "False"
    /\ mod_attribute_name = "unset"
    /\ mask_last = "none"

MaskRest ==
    /\ primary_type = "MESH"
    /\ vertex_groups = {}
    /\ primary_alive = TRUE
    /\ secondary_alive = TRUE
    /\ modifier_present = TRUE
    /\ secondary_renamed = FALSE
    /\ use_density_mask = FALSE
    /\ density_vertex_group = ""
    /\ density_mask_socket_identifier = ""
    /\ density_factor_link = "none"
    /\ density_factor_default = "1.0"
    /\ mod_use_attribute = "unset"
    /\ mod_attribute_name = "unset"
    /\ mask_last = "none"

(***************************************************************************)
(* SPECIFICATIONS                                                          *)
(***************************************************************************)
InitModal == ModalInit /\ FramesRest /\ RepairRest /\ ColorRest /\ GeoRest /\ MaskRest

NextModal ==
    \/ InvokeNoPillow /\ UNCHANGED <<frame_vars, repair_vars, color_vars, geo_vars, mask_vars>>
    \/ InvokeNoInput /\ UNCHANGED <<frame_vars, repair_vars, color_vars, geo_vars, mask_vars>>
    \/ Invoke /\ UNCHANGED <<frame_vars, repair_vars, color_vars, geo_vars, mask_vars>>
    \/ Modal /\ UNCHANGED <<frame_vars, repair_vars, color_vars, geo_vars, mask_vars>>
    \/ apply_stroke_thread /\ UNCHANGED <<frame_vars, repair_vars, color_vars, geo_vars, mask_vars>>
    \/ CancelEffect /\ UNCHANGED <<frame_vars, repair_vars, color_vars, geo_vars, mask_vars>>

SpecModal == InitModal /\ [][NextModal]_vars

InitFrames == FramesInit /\ ModalRest /\ RepairRest /\ ColorRest /\ GeoRest /\ MaskRest

NextFrames ==
    \/ AutoStroke /\ UNCHANGED <<modal_vars, repair_vars, color_vars, geo_vars, mask_vars>>
    \/ SetStepValue /\ UNCHANGED <<modal_vars, repair_vars, color_vars, geo_vars, mask_vars>>
    \/ FrameAdvance /\ UNCHANGED <<modal_vars, repair_vars, color_vars, geo_vars, mask_vars>>
    \/ FrameSet /\ UNCHANGED <<modal_vars, repair_vars, color_vars, geo_vars, mask_vars>>

SpecFrames == InitFrames /\ [][NextFrames]_vars

InitRepair == RepairInit /\ ModalRest /\ FramesRest /\ ColorRest /\ GeoRest /\ MaskRest

NextRepair ==
    \/ repair_painterly_drivers_after_update /\ UNCHANGED <<modal_vars, frame_vars, color_vars, geo_vars, mask_vars>>

SpecRepair == InitRepair /\ [][NextRepair]_vars

color_rest == <<modal_vars, repair_vars, geo_vars, mask_vars, frame_count, held, run_start_seen>>

InitColor == ColorInit /\ ModalRest /\ FramesRest /\ RepairRest /\ GeoRest /\ MaskRest

NextColor ==
    \/ SetColor /\ UNCHANGED <<color_rest, owed>>
    \/ SetAnimationMode /\ UNCHANGED <<color_rest, owed>>
    \/ SelectObject /\ UNCHANGED <<color_rest, owed>>
    \/ SceneFrame /\ UNCHANGED <<color_rest, owed>>
    \/ Tick /\ UNCHANGED <<color_rest, owed>>
    \/ debounce_update_inactive_ramp_nodes /\ UNCHANGED <<color_rest, owed>>

SpecColor == InitColor /\ [][NextColor]_vars

\* The same routines, with the references owed a rebuild tracked.
NextQueue ==
    \/ SetColor /\ owed' = owed_after_update_color /\ UNCHANGED color_rest
    \/ SetAnimationMode /\ UNCHANGED <<color_rest, owed>>
    \/ SelectObject /\ UNCHANGED <<color_rest, owed>>
    \/ SceneFrame /\ UNCHANGED <<color_rest, owed>>
    \/ Tick /\ UNCHANGED <<color_rest, owed>>
    \/ debounce_update_inactive_ramp_nodes /\ owed' = owed_after_debounce
          /\ UNCHANGED color_rest

SpecQueue == InitColor /\ [][NextQueue]_vars

geo_rest == <<modal_vars, frame_vars, repair_vars, color_vars, mask_vars>>

InitGeo == GeoInit /\ ModalRest /\ FramesRest /\ RepairRest /\ ColorRest /\ MaskRest

NextGeo ==
    \/ \E s \in Scenes, o \in GeoObjs : AddPrimaryStroke(s, o) /\ UNCHANGED geo_rest
    \/ \E s \in Scenes, target_idx \in 0..(MaxGeoObjs - 1), S \in SUBSET GeoObjs :
           \E sel \in Orders(S) : InstanceStroke(s, target_idx, sel) /\ UNCHANGED geo_rest
    \/ \E s \in Scenes, i \in 0..MaxGeoObjs : RemovePrimaryStroke(s, i) /\ UNCHANGED geo_rest
    \/ \E s \in Scenes, i \in 0..(MaxGeoObjs - 1), j \in 0..(MaxGeoObjs - 1) :
           RemoveSecondaryStroke(s, i, j) /\ UNCHANGED geo_rest
    \/ \E o \in GeoObjs : ToggleInstanceVisibility(o) /\ UNCHANGED geo_rest
    \/ \E o \in GeoObjs : DeleteObject(o) /\ UNCHANGED geo_rest

SpecGeo == InitGeo /\ [][NextGeo]_vars

mask_rest == <<modal_vars, frame_vars, repair_vars, color_vars, geo_vars>>

InitMask == MaskInit /\ ModalRest /\ FramesRest /\ RepairRest /\ ColorRest /\ GeoRest

NextMask ==
    \/ SetUseDensityMask /\ UNCHANGED mask_rest
    \/ SetDensityVertexGroup /\ UNCHANGED mask_rest
    \/ SetInstanceValue /\ UNCHANGED mask_rest
    \/ EditVertexGroups /\ UNCHANGED mask_rest
    \/ RenameSecondary /\ UNCHANGED mask_rest
    \/ DeleteMaskObject /\ UNCHANGED mask_rest
    \/ RemoveModifier /\ UNCHANGED mask_rest
    \/ EditDensityFactorInput /\ UNCHANGED mask_rest

SpecMask == InitMask /\ [][NextMask]_vars

(***************************************************************************)
(* CLAIMS                                                                  *)
(***************************************************************************)

\* C1: once invoke has returned RUNNING_MODAL, the operator ends by returning
\* FINISHED or CANCELLED, and painterly_is_processing is then False.
C1_EndsCleanly ==
    op_status \notin {"none", "running"}
        => op_status \in {"finished", "cancelled"} /\ ~painterly_is_processing

\* C3: in a job started with only_color_pass = True no NORMAL pass is set up
\* or finalized for any material.
C3_NoNormalPass ==
    (op_status # "none" /\ only_color_pass)
        => \A m \in Mats : <<m, "NORMAL">> \notin self.setup_log \cup self.tile_log

\* C2: once a cancel has been requested while the job is running, no step
\* finalizes a pass (finalize_tile, finalize_node_setup), and the next event
\* handled by modal returns CANCELLED, removes the timer, shuts the executor
\* down and sets painterly_is_processing to False.
C2_CancelStops ==
    [][(painterly_cancel_requested /\ op_status = "running")
          => /\ self'.tile_log = self.tile_log
             /\ self'.node_log = self.node_log
             /\ Modal => /\ op_status' = "cancelled"
                         /\ ~self'.timer
                         /\ ~self'.executor
                         /\ self'.futures_n = -1
                         /\ self.executor => self'.live_executors = self.live_executors - 1
                         /\ ~painterly_is_processing']_vars

\* A job was cancelled on request while a submitted pass was not yet finalized.
C2_Witness ==
    /\ op_status = "cancelled"
    /\ painterly_cancel_requested
    /\ self.setup_log \ self.tile_log # {}
    /\ ~self.timer /\ ~self.executor /\ ~painterly_is_processing

\* C4: at every scene frame, for every step_value and frame count, exactly
\* one Mix Shader_k driver is true, and the mix-shader chain outputs that
\* StrokeBSDF_k, never the transparent shader.
C4_ExactlyOneFrame ==
    /\ Cardinality({k \in 1..frame_count :
                      mix_factor(k, frame_current, step_value, frame_count)}) = 1
    /\ active_stroke \in 1..frame_count
    /\ mix_factor(active_stroke, frame_current, step_value, frame_count)

\* A frame before frame 1, held for several frames, in a material of several
\* stroke frames.
C4_Witness ==
    /\ frame_current < 0
    /\ step_value > 1
    /\ frame_count > 1
    /\ active_stroke = frame_count

\* C5: as the scene frame increases by one at a time, the active stroke index
\* stays the same for exactly step_value consecutive scene frames and then
\* moves to the next index, cycling 1, 2, ..., fc, 1 (observable when fc >= 2).
C5_HeldExactlyStep ==
    [][(FrameAdvance /\ run_start_seen /\ frame_count >= 2)
          => LET cur == active_stroke
                 nxt == mix_chain(frame_count, frame_current', step_value, frame_count)
             IN IF nxt = cur
                THEN held < step_value
                ELSE held = step_value /\ nxt = (cur % frame_count) + 1]_vars

\* C6: after the repair, no driver expression of a material named Painterly_*
\* contains "/ step" or "% fc" (so it cannot divide by zero when step = 0 or
\* fc = 0), and the drivers of a material with another name are unchanged.
C6_AllGuarded ==
    repair_runs = 1 =>
        IF mat_painterly
        THEN \A i \in 1..Len(drivers) :
                 /\ ~contains(drivers[i], <<"/ ", "step">>)
                 /\ ~contains(drivers[i], <<"% ", "fc">>)
        ELSE drivers = loaded_drivers

C8_DebounceDefers ==
    [][(debounce_update_inactive_ramp_nodes /\ since_color_update < DEBOUNCE_TOTAL_DELAY)
          => /\ ramp_color' = ramp_color
             /\ pending_inactive_ramp_refs' = pending_inactive_ramp_refs
             /\ timer_registered'
             /\ timer_in' = DEBOUNCE_INTERVAL]_vars

\* The timer has just deferred with references still queued.
C8_Witness ==
    /\ last_timer = "deferred"
    /\ timer_in = DEBOUNCE_INTERVAL
    /\ since_color_update < DEBOUNCE_TOTAL_DELAY
    /\ pending_inactive_ramp_refs # <<>>

\* C9: once the timer has drained the queue and stopped, every reference that
\* update_color ever queued, and whose node still exists, has been rebuilt.
C9_AllQueuedRebuilt ==
    (~timer_registered /\ pending_inactive_ramp_refs = <<>>)
        => \A r \in owed : r[2] \notin ramp_nodes[r[1]]

\* C10: RemovePrimaryStroke with an index inside primary_strokes removes that
\* entry, leaves the primary object (if alive) without any Painterly_GN_
\* modifier and every alive secondary object of the entry visible in viewport
\* and render; with an index >= len(primary_strokes) it returns CANCELLED and
\* changes nothing.
C10_RemovesPrimary ==
    [][\A s \in Scenes, i \in 0..MaxGeoObjs :
          RemovePrimaryStroke(s, i)
            => IF i >= Len(primary_strokes[s])
               THEN /\ geo_last'.result = "CANCELLED"
                    /\ UNCHANGED <<primary_strokes, modifiers, objects, hide, hide_render>>
               ELSE LET entry == primary_strokes[s][i + 1]
                    IN /\ primary_strokes'[s] = remove(primary_strokes[s], i)
                       /\ obj_alive(entry.obj) => modifiers'[entry.obj] = <<>>
                       /\ \A o \in objs_of(entry.secondary_strokes) :
                              obj_alive(o) => ~hide'[o] /\ ~hide_render'[o]]_vars

\* The number of entries of a collection that hold the object o.
Count(o, coll) == Cardinality({k \in 1..Len(coll) : coll[k].obj = o})

\* No primary entry lists the same object twice.
NoDuplicateInstance ==
    \A s \in Scenes : \A i \in 1..Len(primary_strokes[s]) :
        \A o \in GeoObjs : Count(o, primary_strokes[s][i].secondary_strokes) <= 1

\* What InstanceStroke does to the alive selected objects when it goes through
\* its loop: o becomes one more instance of the target, hidden in viewport and
\* render, exactly if it is not the target primary object, not a registered
\* primary stroke object and not already an instance of the target.
InstancedIff(s, target_idx, sel) ==
    LET target == primary_strokes[s][target_idx + 1]
        after == primary_strokes'[s][target_idx + 1]
    IN \A k \in 1..Len(sel) :
          obj_alive(sel[k])
            => ((/\ Count(sel[k], after.secondary_strokes)
                      = Count(sel[k], target.secondary_strokes) + 1
                 /\ hide'[sel[k]]
                 /\ hide_render'[sel[k]])
                <=> (/\ sel[k] # target.obj
                     /\ sel[k] \notin objs_of(primary_strokes[s])
                     /\ sel[k] \notin objs_of(target.secondary_strokes)))

MaskWanted ==
    /\ use_density_mask'
    /\ primary_type = "MESH"
    /\ density_vertex_group' \in vertex_groups

\* C12: after update_geo_node_instance_values has run for a secondary stroke
\* that has a density_mask_socket_identifier (both objects alive, the primary
\* carrying its modifier), the
\* Distribute node's Density Factor input is linked from the Group Input socket
\* with that identifier if use_density_mask is set and density_vertex_group
\* names an existing vertex group of a MESH primary object, and otherwise has
\* no incoming link and default value 1.0; and the modifier's
\* <identifier>_use_attribute key equals that condition.
C12_MaskLinkedIffValid ==
    [][(primary_alive /\ secondary_alive /\ modifier_present /\ modifier_present'
          /\ density_mask_socket_identifier' # ""
          /\ (SetUseDensityMask \/ SetDensityVertexGroup \/ SetInstanceValue))
         => /\ IF MaskWanted
               THEN density_factor_link' = "mask"
               ELSE density_factor_link' = "none" /\ density_factor_default' = "1.0"
            /\ mod_use_attribute' = key_value(MaskWanted)]_vars

====
